---- MODULE Spec2Model ----
(***************************************************************************)
(* A model of src/src/Mobject.js: the path builder and shape classifier of *)
(* Mobject.computeShapes, and the lifecycle of a Mobject (constructor,     *)
(* update, dispose) with the module-level DEFAULT_STYLE object.            *)
(*                                                                         *)
(* Four specifications:                                                    *)
(*   SpecShapes  computeShapes as a pure function of a points array        *)
(*   Spec        construct / update / dispose over two entities            *)
(*   SpecRound   construct, then update with the same arguments            *)
(*   SpecSteps   update taken one statement at a time                      *)
(***************************************************************************)
EXTENDS Integers, Sequences, FiniteSets, TLC

VARIABLES
  points,         \* SpecShapes: the points array handed to computeShapes
  result,         \* SpecShapes: what computeShapes did with it
  DEFAULT_STYLE,  \* the module-level object of Mobject.js:7-13 (mutable)
  ents,           \* entity slot -> the Mobject held there
  nextBuf,        \* identity of the next geometry/material buffer allocated
  disposedBufs,   \* identities of the buffers dispose() was called on
  last,           \* the most recent call: arguments, outcome, entity before
  ops,            \* number of calls made so far
  run             \* SpecSteps: the update call in progress and its position

vars ==
  <<points, result, DEFAULT_STYLE, ents, nextBuf, disposedBufs, last, ops, run>>

(***************************************************************************)
(* Bounds                                                                  *)
(***************************************************************************)
MaxPieces == 3      \* contours concatenated into one points array
MaxOps == 3         \* calls (construct, update, dispose) in one behaviour

(***************************************************************************)
(* JavaScript values                                                       *)
(***************************************************************************)
\* points[k] of a JS array (0-based) is undefined at or past points.length
IsUndefinedAt(pts, k) == ~(k < Len(pts))

\* points[k] for an index inside the array
At(pts, k) == pts[k + 1]

Abs(x) == IF x < 0 THEN -x ELSE x

(***************************************************************************)
(* utils.js is not among the sources: allClose and isPointInsidePolygon    *)
(* are modelled from the specification (component-wise tolerance; ray      *)
(* casting against the vertex polygon).  Coordinates are integers and the  *)
(* tolerance is one unit of the grid.                                      *)
(***************************************************************************)
Tol == 1

allClose(a, b) == \A k \in 1..2 : Abs(a[k] - b[k]) <= Tol

\* edge a-b is crossed by the ray from p towards +x
Crosses(p, a, b) ==
  /\ (a[2] > p[2]) # (b[2] > p[2])
  /\ LET lhs == (p[1] - a[1]) * (b[2] - a[2])
         rhs == (b[1] - a[1]) * (p[2] - a[2])
     IN  IF b[2] - a[2] > 0 THEN lhs < rhs ELSE lhs > rhs

isPointInsidePolygon(p, poly) ==
  LET n == Len(poly)
      prev(k) == IF k = 1 THEN n ELSE k - 1
  IN  Cardinality({k \in 1..n : Crosses(p, poly[k], poly[prev(k)])}) % 2 = 1

(***************************************************************************)
(* THREE.Path as computeShapes uses it: moveTo sets the current point,     *)
(* bezierCurveTo appends a curve that starts at the current point.         *)
(***************************************************************************)
NewPath == [currentPoint |-> <<0, 0>>, curves |-> <<>>]

moveTo(path, p) == [path EXCEPT !.currentPoint = p]

bezierCurveTo(path, c1, c2, e) ==
  [currentPoint |-> e,
   curves |-> Append(path.curves, <<path.currentPoint, c1, c2, e>>)]

\* test_hole.getPoint(0): the start of the path's first curve
getPoint0(path) == path.curves[1][1]

\* test_shape.getPoints(): the vertex polygon of the path (curve joints)
getPoints(path) ==
  <<path.curves[1][1]>> \o [k \in 1..Len(path.curves) |-> path.curves[k][4]]

(***************************************************************************)
(* computeShapes, first loop (lines 64-92): the path builder               *)
(***************************************************************************)
\* lines 70-73 when the path is started only once, at the first segment
StartPathOnce(pts, csi, path, move) ==
  IF csi = 0 THEN moveTo(NewPath, At(pts, csi)) ELSE path

\* lines 70-73: a new path is started when move is set
StartPath(pts, csi, path, move) ==
  IF move THEN moveTo(NewPath, At(pts, csi)) ELSE path

\* lines 83-88 with exact equality in place of allClose
MoveAfterExact(pts, csi) ==
  IF csi + 4 = Len(pts) THEN TRUE
  ELSE At(pts, csi + 3) # At(pts, csi + 4)

\* lines 83-88: the path ends after this segment
MoveAfter(pts, csi) ==
  IF csi + 4 = Len(pts) THEN TRUE
  ELSE ~allClose(At(pts, csi + 3), At(pts, csi + 4))

\* lines 89-91
PushIf(paths, path, move) == IF move THEN Append(paths, path) ELSE paths

RECURSIVE BuildLoop(_, _, _, _, _)
BuildLoop(pts, i, path, move, paths) ==
  IF ~(4 * i < Len(pts))
  THEN [status |-> "ok", paths |-> paths, oob |-> {}]
  ELSE LET csi == 4 * i
           started == StartPath(pts, csi, path, move)
           \* points[csi + k][0] with points[csi + k] undefined: a TypeError,
           \* raised while the arguments of bezierCurveTo are evaluated
           missing == {k \in (csi + 1)..(csi + 3) : IsUndefinedAt(pts, k)}
       IN  IF missing # {}
           THEN [status |-> "TypeError", paths |-> <<>>,
                 oob |-> {CHOOSE k \in missing : \A m \in missing : k <= m}]
           ELSE LET curved == bezierCurveTo(started, At(pts, csi + 1),
                                            At(pts, csi + 2), At(pts, csi + 3))
                    mv == MoveAfter(pts, csi)
                IN  BuildLoop(pts, i + 1, curved, mv, PushIf(paths, curved, mv))

\* lines 64-67: "let path" is unassigned until the first iteration, which
\* assigns it because move starts true
buildPaths(pts) == BuildLoop(pts, 0, NewPath, TRUE, <<>>)

(***************************************************************************)
(* computeShapes, lines 94-137: the shape classifier.  Path indices are    *)
(* 0-based as in the source; a shape records the index of the path it was  *)
(* built from (src) and of each hole (holeSrc).                            *)
(***************************************************************************)
shapeContainsHole(paths, i, j) ==
  isPointInsidePolygon(getPoint0(paths[j + 1]), getPoints(paths[i + 1]))

\* lines 114-117 / 133-134
NewShape(paths, i) ==
  [src |-> i, curves |-> paths[i + 1].curves, holes |-> <<>>, holeSrc |-> <<>>]

\* shape.holes.push(test_hole)
PushHole(shape, paths, j) ==
  [shape EXCEPT !.holes = Append(@, paths[j + 1].curves),
                !.holeSrc = Append(@, j)]

\* lines 102-125 when the scan over j ends at the first hole found
RECURSIVE InnerLoopFirstHole(_, _, _, _, _)
InnerLoopFirstHole(paths, i, j, known, decided) ==
  IF ~(j < Len(paths)) \/ known # <<>>
  THEN [known |-> known, decided |-> decided]
  ELSE IF i = j \/ j \in decided
       THEN InnerLoopFirstHole(paths, i, j + 1, known, decided)
  ELSE IF shapeContainsHole(paths, i, j)
       THEN InnerLoopFirstHole(paths, i, j + 1,
                               <<PushHole(NewShape(paths, i), paths, j)>>,
                               decided \cup {i, j})
  ELSE InnerLoopFirstHole(paths, i, j + 1, known, decided)

\* lines 102-125; known_shape is <<>> for null, <<shape>> otherwise
RECURSIVE InnerLoop(_, _, _, _, _)
InnerLoop(paths, i, j, known, decided) ==
  IF ~(j < Len(paths)) THEN [known |-> known, decided |-> decided]
  ELSE IF i = j \/ j \in decided
       THEN InnerLoop(paths, i, j + 1, known, decided)
  ELSE IF shapeContainsHole(paths, i, j)
       THEN IF known = <<>>
            THEN InnerLoop(paths, i, j + 1,
                           <<PushHole(NewShape(paths, i), paths, j)>>,
                           decided \cup {i, j})
            ELSE InnerLoop(paths, i, j + 1, <<PushHole(known[1], paths, j)>>,
                           decided \cup {j})
  ELSE InnerLoop(paths, i, j + 1, known, decided)

\* lines 96-129 when only the first path is tried as an outer boundary
OuterLoopFirst(paths, i, shapes, decided) ==
  IF ~(i < Len(paths)) THEN [shapes |-> shapes, decided |-> decided]
  ELSE LET r == InnerLoop(paths, i, 0, <<>>, decided)
       IN  [shapes |-> shapes \o r.known, decided |-> r.decided]

\* lines 96-129
RECURSIVE OuterLoop(_, _, _, _)
OuterLoop(paths, i, shapes, decided) ==
  IF ~(i < Len(paths)) THEN [shapes |-> shapes, decided |-> decided]
  ELSE IF i \in decided THEN OuterLoop(paths, i + 1, shapes, decided)
  ELSE LET r == InnerLoop(paths, i, 0, <<>>, decided)
       IN  OuterLoop(paths, i + 1, shapes \o r.known, r.decided)

\* lines 132-136 when the loop body runs at most once
FinalLoopOne(paths, i, shapes, decided) ==
  IF i < Len(paths) /\ i \notin decided
  THEN Append(shapes, NewShape(paths, i))
  ELSE shapes

\* lines 132-136: the loop condition ends the loop at the first decided index
RECURSIVE FinalLoop(_, _, _, _)
FinalLoop(paths, i, shapes, decided) ==
  IF i < Len(paths) /\ i \notin decided
  THEN FinalLoop(paths, i + 1, Append(shapes, NewShape(paths, i)), decided)
  ELSE shapes

classify(paths) ==
  LET r == OuterLoop(paths, 0, <<>>, {})
  IN  FinalLoop(paths, 0, r.shapes, r.decided)

\* lines 63-138
computeShapes(pts) ==
  LET b == buildPaths(pts)
  IN  IF b.status # "ok"
      THEN [status |-> b.status, paths |-> <<>>, shapes |-> <<>>, oob |-> b.oob]
      ELSE [status |-> "ok", paths |-> b.paths, shapes |-> classify(b.paths),
            oob |-> {}]

(***************************************************************************)
(* Points arrays.  A contour is a list of vertices; each edge a-b becomes  *)
(* one segment (a, a, b, b): start, two control points, end.               *)
(***************************************************************************)
Seg(a, b) == <<a, a, b, b>>

Contour(vs) ==
  LET F[k \in 1..Len(vs)] ==
        IF k = 1 THEN <<>> ELSE F[k - 1] \o Seg(vs[k - 1], vs[k])
  IN  F[Len(vs)]

Tri(o, s) ==
  Contour(<<o, <<o[1] + s, o[2]>>, <<o[1], o[2] + s>>, o>>)

Pieces ==
  << Tri(<<0, 0>>, 12),                  \* A
     Tri(<<2, 2>>, 6),                   \* B, inside A
     Tri(<<4, 4>>, 1),                   \* C, inside B
     Tri(<<20, 20>>, 3),                 \* D, apart from the others
     Contour(<<<<4, 1>>, <<-3, 1>>, <<-3, -3>>, <<4, -3>>, <<4, 1>>>>),
                                         \* E, overlaps A both ways
     Seg(<<30, 0>>, <<31, 0>>),          \* S, an open segment
     Seg(<<32, 0>>, <<33, 0>>) >>        \* T, starts within Tol of S's end

Concat(ix) ==
  LET F[k \in 0..Len(ix)] ==
        IF k = 0 THEN <<>> ELSE F[k - 1] \o Pieces[ix[k]]
  IN  F[Len(ix)]

DropLast(pts, r) == SubSeq(pts, 1, Len(pts) - r)

\* every concatenation of at most MaxPieces pieces, and the same with one
\* to three trailing points missing
PointsInputs ==
  LET ixs == UNION {[1..n -> 1..Len(Pieces)] : n \in 0..MaxPieces}
  IN  {DropLast(Concat(ix), r) : ix \in ixs, r \in 0..3}

(***************************************************************************)
(* Mobject: style, materials, geometry buffers                             *)
(***************************************************************************)
\* lines 7-13 as written in the source
DefaultStyleLiteral ==
  [strokeColor |-> 16777215, strokeOpacity |-> 1, fillColor |-> 0,
   fillOpacity |-> 1, strokeWidth |-> 4]

STROKE_SHRINK_FACTOR == 100

\* A style argument is the set of the <<field, value>> pairs it gives.
Has(style, f) == \E pr \in style : pr[1] = f
Get(style, f) == (CHOOSE pr \in style : pr[1] = f)[2]

\* Object.assign(target, style): writes the given fields into target and
\* returns target itself
ObjectAssign(target, style) ==
  [f \in DOMAIN target |-> IF Has(style, f) THEN Get(style, f) ELSE target[f]]

NoGeometry == [id |-> 0, shapes |-> <<>>]
NoMaterial == [id |-> 0, color |-> 0, opacity |-> 0, lineWidth |-> <<0, 1>>]

NoEntity ==
  [status |-> "none", shapes |-> <<>>, children |-> <<>>,
   fillGeometry |-> NoGeometry, fillMaterial |-> NoMaterial,
   strokeGeometry |-> NoGeometry, strokeMaterial |-> NoMaterial,
   drawn |-> <<>>, created |-> {}]

\* lines 202-206
updateFillMaterial(ent, style) ==
  [ent EXCEPT !.fillMaterial.color = style.fillColor,
              !.fillMaterial.opacity = style.fillOpacity]

\* lines 177-182 when the stroke width is handed on undivided
updateStrokeMaterialRaw(ent, style) ==
  [ent EXCEPT !.strokeMaterial.color = style.strokeColor,
              !.strokeMaterial.opacity = style.strokeOpacity,
              !.strokeMaterial.lineWidth = <<style.strokeWidth, 1>>]

\* lines 177-182; lineWidth is the fraction strokeWidth / STROKE_SHRINK_FACTOR
updateStrokeMaterial(ent, style) ==
  [ent EXCEPT !.strokeMaterial.color = style.strokeColor,
              !.strokeMaterial.opacity = style.strokeOpacity,
              !.strokeMaterial.lineWidth =
                  <<style.strokeWidth, STROKE_SHRINK_FACTOR>>]

\* lines 188-190 when the refresh passes on the outer boundaries only
updateFillGeometryOuterOnly(ent) ==
  [ent EXCEPT !.fillGeometry.shapes =
     [i \in 1..Len(ent.shapes) |->
        [ent.shapes[i] EXCEPT !.holes = <<>>, !.holeSrc = <<>>]]]

\* lines 188-190: the fill buffer is refreshed in place
updateFillGeometry(ent) == [ent EXCEPT !.fillGeometry.shapes = ent.shapes]

\* lines 18-33.  style: the module's style object after line 21; thrown:
\* computeShapes raised and no object exists; ent: the object built
constructor(pts, style, defaults, buf) ==
  LET merged == ObjectAssign(defaults, style)
      r == computeShapes(pts)
  IN  IF r.status # "ok"
      THEN [style |-> merged, outcome |-> r.status, ent |-> NoEntity,
            allocated |-> 0]
      ELSE [style |-> merged, outcome |-> "returned", allocated |-> 4,
            ent |->
              [status |-> "live", shapes |-> r.shapes,
               children |-> <<"fillMesh", "strokeMesh">>,
               fillGeometry |-> [id |-> buf, shapes |-> r.shapes],
               fillMaterial |->
                 [id |-> buf + 1, color |-> merged.fillColor,
                  opacity |-> merged.fillOpacity, lineWidth |-> <<0, 1>>],
               strokeGeometry |-> [id |-> buf + 2, shapes |-> r.shapes],
               strokeMaterial |->
                 [id |-> buf + 3, color |-> merged.strokeColor,
                  opacity |-> merged.strokeOpacity,
                  lineWidth |-> <<merged.strokeWidth, STROKE_SHRINK_FACTOR>>],
               drawn |-> pts, created |-> buf..(buf + 3)]]

\* lines 51-53
ApplyStyle(ent, cur, style) ==
  LET merged == ObjectAssign(cur, style)
  IN  [style |-> merged,
       ent |-> updateStrokeMaterial(updateFillMaterial(ent, merged), merged)]

\* line 41 when only the argument's opacity is tested
SkipFillArgOnly(cur, style) == <<"fillOpacity", 0>> \in style

\* line 41 and line 44: the geometry is left alone
SkipFill(cur, style) == cur.fillOpacity = 0 /\ <<"fillOpacity", 0>> \in style
SkipStroke(cur, style) ==
  cur.strokeOpacity = 0 /\ <<"strokeOpacity", 0>> \in style

\* line 36 when the flag is not consulted
RedrawAlways(needsRedraw) == TRUE

\* line 36
Redraw(needsRedraw) == needsRedraw

\* lines 35-54.  cur: the entity's style object before the call; fault: the
\* collaborator call that raises ("fill": line 42, "stroke": line 47).
update(ent, cur, pts, style, needsRedraw, fault, buf) ==
  LET r == computeShapes(pts)
      thrown(e, what, disp) ==
        [ent |-> e, style |-> cur, outcome |-> what, disposed |-> disp,
         allocated |-> 0]
      done(e, disp, n) ==
        LET a == ApplyStyle(e, cur, style)
        IN  [ent |-> a.ent, style |-> a.style, outcome |-> "returned",
             disposed |-> disp, allocated |-> n]
  IN  IF ~Redraw(needsRedraw) THEN done(ent, {}, 0)
      ELSE IF r.status # "ok" THEN thrown(ent, r.status, {})
      ELSE LET e1 == [ent EXCEPT !.shapes = r.shapes]
           IN  IF ~SkipFill(cur, style) /\ fault = "fill"
               THEN thrown(e1, "CollaboratorError", {})
               ELSE LET e2 == IF SkipFill(cur, style) THEN e1
                              ELSE updateFillGeometry(e1)
                        old == e2.strokeGeometry.id
                    IN  IF SkipStroke(cur, style)
                        THEN done([e2 EXCEPT !.drawn = pts], {}, 0)
                        ELSE IF fault = "stroke"
                        THEN thrown(e2, "CollaboratorError", {old})
                        ELSE done([e2 EXCEPT
                                     !.strokeGeometry =
                                        [id |-> buf, shapes |-> e2.shapes],
                                     !.drawn = pts,
                                     !.created = @ \cup {buf}],
                                  {old}, 1)

\* lines 56-61 without line 59
disposeNoStrokeGeometry(ent) ==
  {ent.fillGeometry.id, ent.fillMaterial.id, ent.strokeMaterial.id}

\* lines 56-61
dispose(ent) ==
  {ent.fillGeometry.id, ent.fillMaterial.id,
   ent.strokeGeometry.id, ent.strokeMaterial.id}

(***************************************************************************)
(* Inputs of the lifecycle specification                                   *)
(***************************************************************************)
EntityIds == {1, 2}

LifePoints ==
  { <<>>,                                \* no point
    <<<<30, 0>>>>,                       \* a single point
    Pieces[6] }                          \* S, one segment

StyleArgs ==
  { {},
    {<<"fillOpacity", 0>>},
    {<<"fillOpacity", 1>>},
    {<<"strokeOpacity", 0>>},
    {<<"fillColor", 16711680>>, <<"strokeWidth", 8>>} }

Faults == {"none", "fill", "stroke"}

NoCall ==
  [op |-> "none", id |-> 0, points |-> <<>>, style |-> {},
   needsRedraw |-> FALSE, fault |-> "none", outcome |-> "none",
   pre |-> NoEntity, preStyle |-> DefaultStyleLiteral, disposed |-> {},
   allocated |-> 0]

\* no update call is in progress
Idle ==
  [pc |-> 0, outcome |-> "none", id |-> 0, points |-> <<>>, style |-> {},
   needsRedraw |-> FALSE, pre |-> NoEntity, preStyle |-> DefaultStyleLiteral,
   log |-> <<>>]

NotCalled == [status |-> "notCalled", paths |-> <<>>, shapes |-> <<>>, oob |-> {}]

\* the style object an entity's style field refers to: line 21 and line 51
\* store the object Object.assign returns, which is DEFAULT_STYLE itself
StyleOf(e) == DEFAULT_STYLE

(***************************************************************************)
(* Spec: construct, update and dispose calls on the entities               *)
(***************************************************************************)
LifeInit ==
  /\ DEFAULT_STYLE = DefaultStyleLiteral
  /\ ents = [e \in EntityIds |-> NoEntity]
  /\ nextBuf = 1
  /\ disposedBufs = {}
  /\ last = NoCall
  /\ ops = 0
  /\ run = Idle

Init == LifeInit /\ points = <<>> /\ result = NotCalled

Construct(e, pts, style) ==
  /\ ops < MaxOps
  /\ ents[e].status = "none"
  /\ \A d \in EntityIds : d < e => ents[d].status # "none"
  /\ \E c \in {constructor(pts, style, DEFAULT_STYLE, nextBuf)} :
         /\ DEFAULT_STYLE' = c.style
         /\ ents' = [ents EXCEPT ![e] = c.ent]
         /\ nextBuf' = nextBuf + c.allocated
         /\ last' = [op |-> "construct", id |-> e, points |-> pts,
                     style |-> style, needsRedraw |-> TRUE, fault |-> "none",
                     outcome |-> c.outcome, pre |-> ents[e],
                     preStyle |-> DEFAULT_STYLE, disposed |-> {},
                     allocated |-> c.allocated]
  /\ ops' = ops + 1
  /\ UNCHANGED <<points, result, disposedBufs, run>>

Update(e, pts, style, needsRedraw, fault) ==
  /\ ops < MaxOps
  /\ ents[e].status = "live"
  /\ \E u \in {update(ents[e], StyleOf(e), pts, style, needsRedraw, fault,
                       nextBuf)} :
         /\ fault # "none" => u.outcome = "CollaboratorError"
         /\ DEFAULT_STYLE' = u.style
         /\ ents' = [ents EXCEPT ![e] = u.ent]
         /\ nextBuf' = nextBuf + u.allocated
         /\ disposedBufs' = disposedBufs \cup u.disposed
         /\ last' = [op |-> "update", id |-> e, points |-> pts,
                     style |-> style, needsRedraw |-> needsRedraw,
                     fault |-> fault, outcome |-> u.outcome, pre |-> ents[e],
                     preStyle |-> DEFAULT_STYLE, disposed |-> u.disposed,
                     allocated |-> u.allocated]
  /\ ops' = ops + 1
  /\ UNCHANGED <<points, result, run>>

Dispose(e) ==
  /\ ops < MaxOps
  /\ ents[e].status = "live"
  /\ disposedBufs' = disposedBufs \cup dispose(ents[e])
  /\ ents' = [ents EXCEPT ![e].status = "disposed"]
  /\ last' = [NoCall EXCEPT !.op = "dispose", !.id = e,
                            !.outcome = "returned", !.pre = ents[e],
                            !.preStyle = DEFAULT_STYLE,
                            !.disposed = dispose(ents[e])]
  /\ ops' = ops + 1
  /\ UNCHANGED <<points, result, DEFAULT_STYLE, nextBuf, run>>

Next ==
  \/ \E e \in EntityIds, pts \in LifePoints, style \in StyleArgs :
       Construct(e, pts, style)
  \/ \E e \in EntityIds, pts \in LifePoints, style \in StyleArgs,
        needsRedraw \in BOOLEAN, fault \in Faults :
       Update(e, pts, style, needsRedraw, fault)
  \/ \E e \in EntityIds : Dispose(e)

Spec == Init /\ [][Next]_vars

(***************************************************************************)
(* SpecShapes: computeShapes applied to one points array                   *)
(***************************************************************************)
InitShapes == LifeInit /\ points \in PointsInputs /\ result = NotCalled

ComputeShapes ==
  /\ result = NotCalled
  /\ result' = computeShapes(points)
  /\ UNCHANGED <<points, DEFAULT_STYLE, ents, nextBuf, disposedBufs, last, ops,
                 run>>

NextShapes == ComputeShapes

SpecShapes == InitShapes /\ [][NextShapes]_vars

(***************************************************************************)
(* SpecRound: an entity is constructed and at once updated with the same   *)
(* points and style and needsRedraw = true                                 *)
(***************************************************************************)
InitRound == LifeInit /\ points \in PointsInputs /\ result = NotCalled

RoundConstruct ==
  /\ last.op = "none"
  /\ \E style \in StyleArgs : Construct(1, points, style)

RoundUpdate ==
  /\ last.op = "construct"
  /\ Update(1, points, last.style, TRUE, "none")

NextRound == RoundConstruct \/ RoundUpdate

SpecRound == InitRound /\ [][NextRound]_vars

(***************************************************************************)
(* SpecSteps: one entity; update runs one statement at a time, so that     *)
(* the states in the middle of a call are states of the model              *)
(***************************************************************************)
\* lines 51-53 placed ahead of lines 36-49
StepOrderMaterialsFirst ==
  <<"merge", "fillMaterial", "strokeMaterial", "shapes", "fill", "stroke">>

\* the statements of update in program order: line 37, lines 41-43,
\* lines 44-48, line 51, line 52, line 53
StepOrder ==
  <<"shapes", "fill", "stroke", "merge", "fillMaterial", "strokeMaterial">>

Running == run.outcome = "running"
AtStep(name) == Running /\ StepOrder[run.pc] = name

\* control moves to the next statement, or the call returns after the last
Advance(name, acted) ==
  run' = [run EXCEPT
            !.pc = @ + 1,
            !.log = IF acted THEN Append(@, name) ELSE @,
            !.outcome = IF run.pc = Len(StepOrder) THEN "returned" ELSE @]

StepsConstruct ==
  /\ ~Running
  /\ \E pts \in LifePoints, style \in StyleArgs : Construct(1, pts, style)

\* update(points, style, needsRedraw) is entered
Begin(pts, style, needsRedraw) ==
  /\ ~Running
  /\ ops < MaxOps
  /\ ents[1].status = "live"
  /\ run' = [pc |-> 1, outcome |-> "running", id |-> 1, points |-> pts,
             style |-> style, needsRedraw |-> needsRedraw, pre |-> ents[1],
             preStyle |-> DEFAULT_STYLE, log |-> <<>>]
  /\ ops' = ops + 1
  /\ UNCHANGED <<points, result, DEFAULT_STYLE, ents, nextBuf, disposedBufs,
                 last>>

\* lines 36-37
StepShapes ==
  /\ AtStep("shapes")
  /\ \E r \in {computeShapes(run.points)} :
       IF ~Redraw(run.needsRedraw)
       THEN Advance("shapes", FALSE) /\ UNCHANGED ents
       ELSE IF r.status # "ok"
       THEN /\ run' = [run EXCEPT !.outcome = r.status,
                                  !.log = Append(@, "shapes")]
            /\ UNCHANGED ents
       ELSE /\ ents' = [ents EXCEPT ![run.id].shapes = r.shapes]
            /\ Advance("shapes", TRUE)
  /\ UNCHANGED <<points, result, DEFAULT_STYLE, nextBuf, disposedBufs, last,
                 ops>>

\* lines 41-43
StepFill ==
  /\ AtStep("fill")
  /\ IF Redraw(run.needsRedraw) /\ ~SkipFill(StyleOf(run.id), run.style)
     THEN /\ ents' = [ents EXCEPT ![run.id] = updateFillGeometry(@)]
          /\ Advance("fill", TRUE)
     ELSE Advance("fill", FALSE) /\ UNCHANGED ents
  /\ UNCHANGED <<points, result, DEFAULT_STYLE, nextBuf, disposedBufs, last,
                 ops>>

\* lines 44-48
StepStroke ==
  /\ AtStep("stroke")
  /\ IF Redraw(run.needsRedraw) /\ ~SkipStroke(StyleOf(run.id), run.style)
     THEN /\ disposedBufs' =
               disposedBufs \cup {ents[run.id].strokeGeometry.id}
          /\ ents' = [ents EXCEPT
                        ![run.id].strokeGeometry =
                           [id |-> nextBuf, shapes |-> ents[run.id].shapes],
                        ![run.id].drawn = run.points,
                        ![run.id].created = @ \cup {nextBuf}]
          /\ nextBuf' = nextBuf + 1
          /\ Advance("stroke", TRUE)
     ELSE /\ ents' = [ents EXCEPT
                        ![run.id].drawn =
                           IF Redraw(run.needsRedraw) THEN run.points ELSE @]
          /\ Advance("stroke", FALSE)
          /\ UNCHANGED <<nextBuf, disposedBufs>>
  /\ UNCHANGED <<points, result, DEFAULT_STYLE, last, ops>>

\* line 51
StepMerge ==
  /\ AtStep("merge")
  /\ DEFAULT_STYLE' = ObjectAssign(StyleOf(run.id), run.style)
  /\ Advance("merge", TRUE)
  /\ UNCHANGED <<points, result, ents, nextBuf, disposedBufs, last, ops>>

\* line 52
StepFillMaterial ==
  /\ AtStep("fillMaterial")
  /\ ents' = [ents EXCEPT ![run.id] = updateFillMaterial(@, StyleOf(run.id))]
  /\ Advance("fillMaterial", TRUE)
  /\ UNCHANGED <<points, result, DEFAULT_STYLE, nextBuf, disposedBufs, last,
                 ops>>

\* line 53
StepStrokeMaterial ==
  /\ AtStep("strokeMaterial")
  /\ ents' = [ents EXCEPT
                ![run.id] = updateStrokeMaterial(@, StyleOf(run.id))]
  /\ Advance("strokeMaterial", TRUE)
  /\ UNCHANGED <<points, result, DEFAULT_STYLE, nextBuf, disposedBufs, last,
                 ops>>

NextSteps ==
  \/ StepsConstruct
  \/ \E pts \in LifePoints, style \in StyleArgs, needsRedraw \in BOOLEAN :
       Begin(pts, style, needsRedraw)
  \/ StepShapes
  \/ StepFill
  \/ StepStroke
  \/ StepMerge
  \/ StepFillMaterial
  \/ StepStrokeMaterial

SpecSteps == Init /\ [][NextSteps]_vars

(***************************************************************************)
(* Properties of computeShapes, checked under SpecShapes                   *)
(***************************************************************************)
Called == result.status # "notCalled"
Valid == Len(points) % 4 = 0
NSeg == Len(points) \div 4

\* how often path index i is used by the shapes, as an outer boundary or
\* as a hole
Uses(shapes, i) ==
  Cardinality({k \in 1..Len(shapes) : shapes[k].src = i})
  + Cardinality({kh \in (1..Len(shapes)) \X (1..Len(result.paths)) :
                   /\ kh[2] <= Len(shapes[kh[1]].holeSrc)
                   /\ shapes[kh[1]].holeSrc[kh[2]] = i})

\* C1: every path the path builder produced appears in the returned shapes
\* exactly once, as the outer boundary of one shape or as a hole of one shape.
C1_EveryPathConsumedOnce ==
  result.status = "ok" =>
    \A i \in 0..(Len(result.paths) - 1) : Uses(result.shapes, i) = 1

\* C7: a points array whose length is not a multiple of 4 is rejected with
\* InvalidGeometryInput, without reading at or past points.length and
\* without producing shapes.
C7_MalformedFailsFast ==
  (Called /\ ~Valid) =>
    /\ result.status = "InvalidGeometryInput"
    /\ result.oob = {}
    /\ result.shapes = <<>>

\* the curves of all paths, in path order
AllCurves(paths) ==
  LET F[k \in 0..Len(paths)] ==
        IF k = 0 THEN <<>> ELSE F[k - 1] \o paths[k].curves
  IN  F[Len(paths)]

\* C9: for a points array of length 4n the paths hold n segments in all, and
\* the k-th of them carries the control points and end point of input
\* segment k: every segment is in exactly one emitted path.
C9_SegmentCount ==
  (Called /\ Valid) =>
    /\ result.status = "ok"
    /\ LET cs == AllCurves(result.paths)
       IN  /\ Len(cs) = NSeg
           /\ \A k \in 1..NSeg :
                /\ cs[k][2] = points[4 * (k - 1) + 2]
                /\ cs[k][3] = points[4 * (k - 1) + 3]
                /\ cs[k][4] = points[4 * (k - 1) + 4]

C9_Witness ==
  /\ result.status = "ok"
  /\ Len(result.paths) >= 2
  /\ \E m \in 1..Len(result.paths) : Len(result.paths[m].curves) >= 2

\* segment k (1-based) is followed by a discontinuity
Discontinuity(k) == ~allClose(points[4 * k], points[4 * k + 1])

\* the segments after which a path is to end: the last one, and each one
\* followed by a discontinuity
Ends == {k \in 1..NSeg : k = NSeg \/ Discontinuity(k)}

\* number of segments in the first m paths
Upto(paths, m) ==
  LET F[k \in 0..m] == IF k = 0 THEN 0 ELSE F[k - 1] + Len(paths[k].curves)
  IN  F[m]

\* C10: a path ends after segment k exactly when k is the last segment or
\* the end of segment k is not approximately the start of segment k+1; so
\* there are as many paths as such ends, in input order, each starting at the
\* start point of its first segment; no path for an empty input, one
\* one-segment path for one segment, one path for a gapless chain.
C10_PathBoundaries ==
  (Called /\ Valid) =>
    LET paths == result.paths
    IN  /\ {Upto(paths, m) : m \in 1..Len(paths)} = Ends
        /\ Len(paths) = Cardinality(Ends)
        /\ \A m \in 1..Len(paths) :
             /\ Len(paths[m].curves) >= 1
             /\ paths[m].curves[1][1] = points[4 * Upto(paths, m - 1) + 1]
        /\ (NSeg = 0 => paths = <<>>)
        /\ (NSeg = 1 => Len(paths) = 1 /\ Len(paths[1].curves) = 1)
        /\ ((NSeg >= 1 /\ \A k \in 1..(NSeg - 1) : ~Discontinuity(k))
              => Len(paths) = 1)

C10_Witness ==
  /\ result.status = "ok"
  /\ NSeg >= 3
  /\ \E k \in 1..(NSeg - 1) : Discontinuity(k)
  /\ \E k \in 1..(NSeg - 1) :
       ~Discontinuity(k) /\ points[4 * k] # points[4 * k + 1]

\* path i's polygon contains the first point of path j (0-based indices)
Contains(i, j) == shapeContainsHole(result.paths, i, j)

NPaths == Len(result.paths)

\* C11: when no path contains the first point of another, there is one shape
\* per path, in input order, each with the curves of its path and no hole.
C11_DisjointPaths ==
  (/\ result.status = "ok"
   /\ \A i, j \in 0..(NPaths - 1) : i # j => ~Contains(i, j)) =>
    /\ Len(result.shapes) = NPaths
    /\ \A k \in 1..NPaths :
         /\ result.shapes[k].src = k - 1
         /\ result.shapes[k].curves = result.paths[k].curves
         /\ result.shapes[k].holes = <<>>

C11_Witness ==
  /\ result.status = "ok"
  /\ NPaths >= 3
  /\ \A i, j \in 0..(NPaths - 1) : i # j => ~Contains(i, j)

\* the one shape made of outer path a with b as its only hole
OneShapeWithHole(a, b) ==
  /\ Len(result.shapes) = 1
  /\ result.shapes[1].src = a
  /\ result.shapes[1].curves = result.paths[a + 1].curves
  /\ result.shapes[1].holeSrc = <<b>>
  /\ result.shapes[1].holes = <<result.paths[b + 1].curves>>

\* C12 as stated: with exactly two paths, whenever one (A) contains the
\* first point of the other (B), the result is the one shape A with hole B,
\* whichever of them comes first.
C12_TwoPathsOriginal ==
  (result.status = "ok" /\ NPaths = 2) =>
    \A a, b \in {0, 1} :
      (a # b /\ Contains(a, b)) => OneShapeWithHole(a, b)

\* C12 as amended: the same, when B does not also contain the first point
\* of A.
C12_TwoPaths ==
  (result.status = "ok" /\ NPaths = 2) =>
    \A a, b \in {0, 1} :
      (a # b /\ Contains(a, b) /\ ~Contains(b, a)) => OneShapeWithHole(a, b)

\* the containing path comes second in the input
C12_Witness ==
  /\ result.status = "ok" /\ NPaths = 2
  /\ Contains(1, 0) /\ ~Contains(0, 1)
  /\ OneShapeWithHole(1, 0)

\* First-match pairing told as a scan over sets: state after paths 0..i-1
\* were tried as outer boundaries.  pairs: the <<outer, holes>> found, in
\* scan order; decided: the indices used so far.
RECURSIVE Pairing(_)
Pairing(i) ==
  IF i = 0 THEN [pairs |-> <<>>, decided |-> {}]
  ELSE LET before == Pairing(i - 1)
           o == i - 1
           hs == {j \in 0..(NPaths - 1) :
                    j # o /\ j \notin before.decided /\ Contains(o, j)}
       IN  IF o \in before.decided \/ hs = {} THEN before
           ELSE [pairs |-> Append(before.pairs, <<o, hs>>),
                 decided |-> before.decided \cup {o} \cup hs]

\* the shapes that have holes, in the order returned
WithHoles == SelectSeq(result.shapes, LAMBDA sh : sh.holeSrc # <<>>)

Increasing(q) == \A x, y \in 1..Len(q) : x < y => q[x] < q[y]

\* C19: scanning in index order, an undecided path becomes an outer shape
\* exactly when another undecided path has its first point inside it; its
\* holes are all such paths, in index order; a decided path is never used
\* again, so with A containing B containing C and A first, B and C are both
\* holes of A.
C19_FirstMatchPairing ==
  result.status = "ok" =>
    LET ref == Pairing(NPaths).pairs
    IN  /\ Len(WithHoles) = Len(ref)
        /\ \A k \in 1..Len(ref) :
             /\ WithHoles[k].src = ref[k][1]
             /\ WithHoles[k].curves = result.paths[ref[k][1] + 1].curves
             /\ {WithHoles[k].holeSrc[h] : h \in 1..Len(WithHoles[k].holeSrc)}
                  = ref[k][2]
             /\ Increasing(WithHoles[k].holeSrc)
             /\ \A h \in 1..Len(WithHoles[k].holeSrc) :
                  WithHoles[k].holes[h]
                    = result.paths[WithHoles[k].holeSrc[h] + 1].curves
        /\ \A i \in 0..(NPaths - 1) : Uses(result.shapes, i) <= 1

\* A contains B, B contains C, A scanned first: one shape, holes B and C
C19_Witness ==
  /\ result.status = "ok" /\ NPaths = 3
  /\ Contains(0, 1) /\ Contains(1, 2) /\ Contains(0, 2)
  /\ ~Contains(1, 0) /\ ~Contains(2, 0) /\ ~Contains(2, 1)
  /\ Len(result.shapes) = 1
  /\ result.shapes[1].src = 0
  /\ result.shapes[1].holeSrc = <<1, 2>>

(***************************************************************************)
(* Properties of the lifecycle, checked under Spec                         *)
(***************************************************************************)
Returned == last.outcome = "returned"
Ent == ents[last.id]

\* the given style over the defaults of lines 7-13
MergeStyle(base, style) ==
  [f \in DOMAIN base |-> IF Has(style, f) THEN Get(style, f) ELSE base[f]]

\* C2: after an update call has returned, fill and stroke geometry are both
\* the ones derived from the points last drawn (the most recent update with
\* needsRedraw, or the construction).
C2_StableAfterUpdate ==
  (last.op = "update" /\ Returned) =>
    /\ Ent.fillGeometry.shapes = computeShapes(Ent.drawn).shapes
    /\ Ent.strokeGeometry.shapes = computeShapes(Ent.drawn).shapes

\* C3: update with needsRedraw = false leaves shapes, fill geometry and
\* stroke geometry (identity and content) as they were, disposes and
\* allocates nothing; only the materials and the style may differ.
C3_NoRedrawKeepsGeometry ==
  (last.op = "update" /\ ~last.needsRedraw) =>
    /\ Returned
    /\ Ent.shapes = last.pre.shapes
    /\ Ent.fillGeometry = last.pre.fillGeometry
    /\ Ent.strokeGeometry = last.pre.strokeGeometry
    /\ last.disposed = {} /\ last.allocated = 0
    /\ Ent = [last.pre EXCEPT !.fillMaterial = Ent.fillMaterial,
                              !.strokeMaterial = Ent.strokeMaterial]

C3_Witness ==
  /\ last.op = "update" /\ ~last.needsRedraw
  /\ computeShapes(last.points).status = "ok"
  /\ computeShapes(last.points).shapes # Ent.shapes
  /\ Ent.fillMaterial # last.pre.fillMaterial
  /\ last.preStyle.fillOpacity # 0

\* C4: an update with needsRedraw whose previous and next fill opacity are
\* both 0 leaves the fill geometry as it was, and still disposes and
\* replaces the stroke geometry when the stroke opacity is not 0.
C4_InvisibleFillUntouched ==
  (/\ last.op = "update" /\ last.needsRedraw /\ Returned
   /\ last.preStyle.fillOpacity = 0
   /\ StyleOf(last.id).fillOpacity = 0) =>
    /\ Ent.fillGeometry = last.pre.fillGeometry
    /\ (StyleOf(last.id).strokeOpacity # 0 =>
          /\ last.pre.strokeGeometry.id \in last.disposed
          /\ Ent.strokeGeometry.id # last.pre.strokeGeometry.id
          /\ Ent.strokeGeometry.shapes = Ent.shapes)

\* C5: the style of a constructed entity is the given style over the
\* defaults of the source, whatever was constructed or updated before.
C5_ConstructorStyle ==
  (last.op = "construct" /\ Returned) =>
    StyleOf(last.id) = MergeStyle(DefaultStyleLiteral, last.style)

\* C6: construction always completes with exactly one fill and one stroke
\* child, also for an empty or one-point input, and updates keep it so.
C6_OneFillOneStroke ==
  /\ last.op = "construct" => Returned
  /\ \A e \in EntityIds :
       (ents[e].status # "none" \/ (last.op = "construct" /\ last.id = e)) =>
         ents[e].children = <<"fillMesh", "strokeMesh">>

\* C8: an update whose rebuild fails leaves shapes, fill geometry and stroke
\* geometry as before the call, and the stroke geometry not disposed.
C8_FailedRebuildKeepsState ==
  (last.op = "update" /\ last.needsRedraw /\ ~Returned) =>
    /\ Ent.shapes = last.pre.shapes
    /\ Ent.fillGeometry = last.pre.fillGeometry
    /\ Ent.strokeGeometry = last.pre.strokeGeometry
    /\ last.disposed = {}

\* the buffers an entity's meshes refer to
Referenced(ent) ==
  {ent.fillGeometry.id, ent.fillMaterial.id,
   ent.strokeGeometry.id, ent.strokeMaterial.id}

\* C13: dispose() releases the current fill geometry, fill material, stroke
\* geometry and stroke material, after any updates; the entity then refers
\* to no buffer that is not disposed.
C13_DisposeReleasesAll ==
  last.op = "dispose" =>
    /\ Cardinality(Referenced(last.pre)) = 4
    /\ Referenced(last.pre) \subseteq disposedBufs
    /\ Referenced(Ent) \subseteq disposedBufs

\* disposal of an entity whose stroke geometry an update has replaced
C13_Witness ==
  /\ last.op = "dispose"
  /\ last.pre.strokeGeometry.id # last.pre.fillGeometry.id + 2
  /\ last.pre.strokeGeometry.id \notin (disposedBufs \ last.disposed)

\* C14: the buffers created for an entity and not yet disposed are exactly
\* the four its meshes refer to, in every state after construction and any
\* updates; after dispose() there is none.
C14_NoLeak ==
  \A e \in EntityIds :
    /\ ents[e].status = "live" =>
         ents[e].created \ disposedBufs = Referenced(ents[e])
    /\ ents[e].status = "disposed" => ents[e].created \ disposedBufs = {}

\* C17: after an update call (with or without needsRedraw) the style is the
\* previous style with the given fields overriding, and the materials carry
\* it: colours and opacities as they are, line width strokeWidth / 100.
C17_StyleMergedIntoMaterials ==
  (last.op = "update" /\ Returned) =>
    LET st == StyleOf(last.id)
    IN  /\ st = MergeStyle(last.preStyle, last.style)
        /\ Ent.fillMaterial.color = st.fillColor
        /\ Ent.fillMaterial.opacity = st.fillOpacity
        /\ Ent.strokeMaterial.color = st.strokeColor
        /\ Ent.strokeMaterial.opacity = st.strokeOpacity
        /\ Ent.strokeMaterial.lineWidth = <<st.strokeWidth, 100>>

C17_Witness ==
  /\ last.op = "update" /\ Returned
  /\ <<"strokeWidth", 8>> \in last.style
  /\ last.preStyle.strokeWidth = 4
  /\ last.preStyle.fillOpacity = 0
  /\ Ent.strokeMaterial.lineWidth = <<8, 100>>
  /\ Ent.fillMaterial.opacity = 0

\* C18: on an update with needsRedraw the fill geometry is refreshed from the
\* new shapes when the previous or the next fill opacity is not 0, and the
\* stroke geometry is disposed and replaced by one built from the new shapes
\* when the previous or the next stroke opacity is not 0; a geometry is
\* left alone only when both its opacities are 0.
C18_GeometryRefresh ==
  (last.op = "update" /\ last.needsRedraw /\ Returned) =>
    LET st == StyleOf(last.id)
        fresh == computeShapes(last.points).shapes
        strokeKept == Ent.strokeGeometry.id = last.pre.strokeGeometry.id
    IN  /\ Ent.shapes = fresh
        /\ (last.preStyle.fillOpacity # 0 \/ st.fillOpacity # 0) =>
             Ent.fillGeometry = [id |-> last.pre.fillGeometry.id,
                                 shapes |-> fresh]
        /\ (last.preStyle.strokeOpacity # 0 \/ st.strokeOpacity # 0) =>
             /\ last.pre.strokeGeometry.id \in last.disposed
             /\ ~strokeKept
             /\ Ent.strokeGeometry.id \notin disposedBufs
             /\ Ent.strokeGeometry.shapes = fresh
        /\ Ent.fillGeometry.shapes # fresh =>
             (last.preStyle.fillOpacity = 0 /\ st.fillOpacity = 0)
        /\ strokeKept =>
             (last.preStyle.strokeOpacity = 0 /\ st.strokeOpacity = 0)

\* the fill goes from visible to invisible and its geometry is refreshed
C18_Witness ==
  /\ last.op = "update" /\ last.needsRedraw /\ Returned
  /\ last.preStyle.fillOpacity # 0
  /\ StyleOf(last.id).fillOpacity = 0
  /\ Ent.fillGeometry.shapes # last.pre.fillGeometry.shapes
  /\ Ent.fillGeometry.shapes = Ent.shapes

\* C20: constructing or updating one entity leaves the style of every other
\* entity as it was, and every entity's materials carry its own style.
C20_StyleIsolation ==
  /\ last.op \in {"construct", "update"} =>
       \A e \in EntityIds \ {last.id} :
         ents[e].status = "live" => StyleOf(e) = last.preStyle
  /\ \A e \in EntityIds :
       ents[e].status = "live" =>
         /\ ents[e].fillMaterial.color = StyleOf(e).fillColor
         /\ ents[e].fillMaterial.opacity = StyleOf(e).fillOpacity
         /\ ents[e].strokeMaterial.color = StyleOf(e).strokeColor
         /\ ents[e].strokeMaterial.opacity = StyleOf(e).strokeOpacity
         /\ ents[e].strokeMaterial.lineWidth = <<StyleOf(e).strokeWidth, 100>>

(***************************************************************************)
(* Properties of the round trip, checked under SpecRound                   *)
(***************************************************************************)
\* same number of shapes and, shape by shape, the same outer path and holes
Equivalent(s, t) ==
  /\ Len(s) = Len(t)
  /\ \A i \in 1..Len(s) :
       s[i].curves = t[i].curves /\ s[i].holes = t[i].holes

GeometrySteps == {"shapes", "fill", "stroke"}
StyleSteps == {"merge", "fillMaterial", "strokeMaterial"}
Done(name) == \E k \in 1..Len(run.log) : run.log[k] = name

\* the geometry steps this call triggers have all run
GeometryFinished ==
  Redraw(run.needsRedraw) =>
    /\ Done("shapes")
    /\ SkipFill(run.preStyle, run.style) \/ Done("fill")
    /\ SkipStroke(run.preStyle, run.style) \/ Done("stroke")

\* C15: within one update call every geometry step that runs comes before
\* the style merge and the material refreshes; until the geometry handling
\* of the call has finished the style and both materials are as they were
\* when the call began.
C15_GeometryBeforeMaterials ==
  run.outcome # "none" =>
    /\ \A k \in 1..Len(run.log), m \in 1..Len(run.log) :
         (run.log[k] \in GeometrySteps /\ run.log[m] \in StyleSteps) => k < m
    /\ (\E n \in StyleSteps : Done(n)) => GeometryFinished
    /\ ~GeometryFinished =>
         /\ StyleOf(run.id) = run.preStyle
         /\ ents[run.id].fillMaterial = run.pre.fillMaterial
         /\ ents[run.id].strokeMaterial = run.pre.strokeMaterial
    /\ run.outcome = "returned" =>
         /\ GeometryFinished
         /\ \A n \in StyleSteps : Done(n)

\* a call that recomputed the shapes, refreshed the fill, rebuilt the stroke
\* and then changed both materials
C15_Witness ==
  /\ run.outcome = "returned"
  /\ run.log = StepOrder
  /\ ents[run.id].shapes # run.pre.shapes
  /\ ents[run.id].fillMaterial # run.pre.fillMaterial
  /\ ents[run.id].strokeMaterial # run.pre.strokeMaterial

====
